---------------------------- MODULE Spec2Model ----------------------------
(***************************************************************************)
(* A model of the multi-armed bandit policies of src/bandit_algorithms.py  *)
(* (EpsilonGreedy, UCB, ThompsonSampling, ContextualBandit) and of the     *)
(* news environment, run_simulation and compare_algorithms of              *)
(* src/simulation.py.                                                      *)
(*                                                                         *)
(* Floating point numbers are modelled by exact rationals [n, d] in lowest *)
(* terms; the UCB scores, which involve sqrt and log, by fixed-point       *)
(* integers in thousandths, with the IEEE special values kept apart.       *)
(***************************************************************************)
EXTENDS Integers, Sequences, FiniteSets, TLC

\* ------------------------------------------------------------------ bounds
MaxArms == 2
MaxPulls == 3
MaxSelects == 3
MaxCtxPulls == 2
MaxHist == 3
MaxRawPulls == 1

\* ------------------------------------------------------------------ state
VARIABLES
    algo,               \* the class of the policy object
    n_arms,             \* BanditAlgorithm.n_arms
    counts,             \* BanditAlgorithm.counts
    values,             \* BanditAlgorithm.values (rationals)
    total_pulls,        \* BanditAlgorithm.total_pulls
    total_reward,       \* BanditAlgorithm.total_reward
    rewards_history,    \* BanditAlgorithm.rewards_history
    arm_history,        \* BanditAlgorithm.arm_history
    epsilon,            \* EpsilonGreedy.epsilon, in percent
    exploration_count,  \* EpsilonGreedy.exploration_count
    exploitation_count, \* EpsilonGreedy.exploitation_count
    c,                  \* UCB.c, in tenths
    alpha,              \* ThompsonSampling.alpha
    beta,               \* ThompsonSampling.beta
    n_features,         \* ContextualBandit.n_features
    ctx_alpha,          \* ContextualBandit.alpha
    A,                  \* ContextualBandit.A, per arm a matrix as a tuple of rows
    b,                  \* ContextualBandit.b
    theta,              \* ContextualBandit.theta (rationals)
    ctor,               \* the arguments the policy was constructed with
    ret,                \* the last call on the policy and what it returned
    driven,             \* every update since the reset was made on the arm
                        \* the select_arm call just before it returned
    n_articles,         \* NewsEnvironment.n_articles
    articles,           \* NewsEnvironment.articles: id, category, true_ctr
    true_ctrs,          \* NewsEnvironment.true_ctrs, in ten-thousandths
    optimal_arm,        \* NewsEnvironment.optimal_arm
    optimal_ctr,        \* NewsEnvironment.optimal_ctr
    env_ret,            \* the last call on the environment and what it returned
    sim,                \* the frame of run_simulation: position, arguments,
                        \* locals and results
    cmp                 \* the frame of compare_algorithms

base == <<counts, values, total_pulls, total_reward, rewards_history, arm_history>>
egState == <<epsilon, exploration_count, exploitation_count>>
tsState == <<alpha, beta>>
ctxState == <<n_features, ctx_alpha, A, b, theta>>
polVars == <<algo, n_arms, base, egState, c, tsState, ctxState, ctor, ret, driven>>
envTruth == <<n_articles, articles, true_ctrs, optimal_arm, optimal_ctr>>
envVars == <<envTruth, env_ret>>
simVars == <<sim, cmp>>
vars == <<polVars, envVars, simVars>>

\* ------------------------------------------------------------- arithmetic
RECURSIVE GCD(_, _)
GCD(p, q) == IF q = 0 THEN p ELSE GCD(q, p % q)

Abs(x) == IF x < 0 THEN -x ELSE x

\* The rational n/d (d # 0) in lowest terms with a positive denominator.
Rat(n, d) ==
    LET g == GCD(Abs(n), Abs(d))
        s == IF d < 0 THEN -1 ELSE 1
    IN  [n |-> (s * n) \div g, d |-> (s * d) \div g]

RatInt(k) == [n |-> k, d |-> 1]
RatAdd(x, y) == Rat(x.n * y.d + y.n * x.d, x.d * y.d)
RatMul(x, y) == Rat(x.n * y.n, x.d * y.d)
RatLess(x, y) == x.n * y.d < y.n * x.d
RatLeq(x, y) == x.n * y.d <= y.n * x.d

Min(p, q) == IF p < q THEN p ELSE q

Arms == 0 .. (n_arms - 1)
Rewards == {0, 1}

\* np.zeros(n)
Zeros(n) == [a \in 0 .. (n - 1) |-> 0]
RatZeros(n) == [a \in 0 .. (n - 1) |-> RatInt(0)]
\* np.ones(n) * x
Filled(n, x) == [a \in 0 .. (n - 1) |-> x]

\* A Python subscript seq[arm] of a sequence of length n: the 0-based slot,
\* a negative index counting from the end, or -1 for an IndexError.
Index(arm, n) ==
    IF arm >= 0 /\ arm < n THEN arm
    ELSE IF arm < 0 /\ arm >= -n THEN arm + n
    ELSE -1

\* --------------------------------------------------------- BanditAlgorithm
\* A faulty incremental average: the new reward is not weighted by 1/n.
IncrementalMeanUnweighted(n, value, reward) ==
    RatAdd(RatMul(Rat(n - 1, n), value), RatInt(reward))

\* The value written by the incremental average update.
IncrementalMean(n, value, reward) ==
    RatAdd(RatMul(Rat(n - 1, n), value), RatMul(Rat(1, n), RatInt(reward)))

\* BanditAlgorithm.update on slot i (a valid 0-based index).
BaseUpdate(i, arm, reward) ==
    /\ counts' = [counts EXCEPT ![i] = @ + 1]
    /\ total_pulls' = total_pulls + 1
    /\ total_reward' = total_reward + reward
    /\ values' = [values EXCEPT ![i] = IncrementalMean(counts'[i], @, reward)]
    /\ rewards_history' = Append(rewards_history, reward)
    /\ arm_history' = Append(arm_history, arm)

\* A faulty reset: total_pulls is kept.
BaseResetKeepsTotal ==
    /\ counts' = Zeros(n_arms)
    /\ values' = RatZeros(n_arms)
    /\ total_pulls' = total_pulls
    /\ total_reward' = 0
    /\ rewards_history' = <<>>
    /\ arm_history' = <<>>

\* BanditAlgorithm.reset
BaseReset ==
    /\ counts' = Zeros(n_arms)
    /\ values' = RatZeros(n_arms)
    /\ total_pulls' = 0
    /\ total_reward' = 0
    /\ rewards_history' = <<>>
    /\ arm_history' = <<>>

\* A faulty Beta update: a reward of 0 counts as a success.
BetaUpdateZeroSuccess(i, reward) ==
    IF reward >= 0
    THEN alpha' = [alpha EXCEPT ![i] = @ + 1] /\ beta' = beta
    ELSE beta' = [beta EXCEPT ![i] = @ + 1] /\ alpha' = alpha

\* ThompsonSampling.update, the Beta parameters after the base update.
BetaUpdate(i, reward) ==
    IF reward > 0
    THEN alpha' = [alpha EXCEPT ![i] = @ + 1] /\ beta' = beta
    ELSE beta' = [beta EXCEPT ![i] = @ + 1] /\ alpha' = alpha

\* Whether the update follows the select_arm call that returned its arm.
Follows(arm) == ret.op = "select_arm" /\ ~ret.raised /\ ret.arm = arm

\* update(arm, reward) of EpsilonGreedy, UCB and ThompsonSampling.
UpdateCall(arm, reward) ==
    LET i == Index(arm, n_arms) IN
    IF i = -1
    THEN /\ ret' = [op |-> "update", arm |-> arm, reward |-> reward, raised |-> TRUE]
         /\ UNCHANGED <<envVars, algo, n_arms, base, egState, c, tsState, ctxState, ctor, driven>>
    ELSE /\ BaseUpdate(i, arm, reward)
         /\ IF algo = "ThompsonSampling"
            THEN BetaUpdate(i, reward)
            ELSE UNCHANGED tsState
         /\ ret' = [op |-> "update", arm |-> arm, reward |-> reward, raised |-> FALSE]
         /\ driven' = (driven /\ Follows(arm))
         /\ UNCHANGED <<envVars, algo, n_arms, egState, c, ctxState, ctor>>

Update ==
    /\ algo \in {"EpsilonGreedy", "UCB", "ThompsonSampling"}
    /\ total_pulls < MaxPulls
    /\ \E arm \in Arms, reward \in Rewards : UpdateCall(arm, reward)

\* reset() of EpsilonGreedy and UCB (inherited) and of ThompsonSampling.
Reset ==
    /\ algo \in {"EpsilonGreedy", "UCB", "ThompsonSampling"}
    /\ BaseReset
    /\ IF algo = "ThompsonSampling"
       THEN alpha' = Filled(n_arms, 1) /\ beta' = Filled(n_arms, 1)
       ELSE UNCHANGED tsState
    /\ ret' = [op |-> "reset", raised |-> FALSE]
    /\ driven' = TRUE
    /\ UNCHANGED <<envVars, algo, n_arms, egState, c, ctxState, ctor>>

\* ------------------------------------------------------------ EpsilonGreedy
\* np.random.random(), in percent
Uniform == {0, 25, 50, 75, 99}

\* np.max over an array indexed 0 .. k
RECURSIVE MaxUpTo(_, _)
MaxUpTo(vals, k) ==
    IF k = 0 THEN vals[0]
    ELSE LET m == MaxUpTo(vals, k - 1)
         IN  IF RatLess(m, vals[k]) THEN vals[k] ELSE m

\* A faulty exploitation: any arm, whatever the values.
BestArmsAny(vals, n) == 0 .. (n - 1)

\* A faulty tie-break: only the first maximizer (np.argmax).
BestArmsFirstOnly(vals, n) ==
    LET max_value == MaxUpTo(vals, n - 1)
        best == {a \in 0 .. (n - 1) : vals[a] = max_value}
    IN  {a \in best : \A o \in best : a <= o}

\* np.where(values == np.max(values))[0]
BestArms(vals, n) ==
    LET max_value == MaxUpTo(vals, n - 1)
    IN  {a \in 0 .. (n - 1) : vals[a] = max_value}

\* EpsilonGreedy.select_arm
EGSelectCall ==
    /\ algo = "EpsilonGreedy"
    /\ \E u \in Uniform :
         IF u < epsilon
         THEN /\ exploration_count' = exploration_count + 1
              /\ exploitation_count' = exploitation_count
              /\ \E a \in Arms :
                   ret' = [op |-> "select_arm", arm |-> a, explored |-> TRUE,
                           raised |-> FALSE]
         ELSE /\ exploitation_count' = exploitation_count + 1
              /\ exploration_count' = exploration_count
              /\ \E a \in BestArms(values, n_arms) :
                   ret' = [op |-> "select_arm", arm |-> a, explored |-> FALSE,
                           raised |-> FALSE]
    /\ driven' = (driven /\ ret.op # "select_arm")
    /\ UNCHANGED <<envVars, algo, n_arms, base, epsilon, c, tsState, ctxState, ctor>>

EGSelect ==
    /\ exploration_count + exploitation_count < MaxSelects
    /\ EGSelectCall

\* --------------------------------------------------------- ThompsonSampling
\* The values a Beta sample is drawn from (any order of the samples occurs).
SampleLevels == {1, 2}

\* np.where(samples == np.max(samples))[0]
BestSamples(samples) ==
    {a \in DOMAIN samples : \A o \in DOMAIN samples : samples[o] <= samples[a]}

\* ThompsonSampling.select_arm
TSSelect ==
    /\ algo = "ThompsonSampling"
    /\ \E samples \in [Arms -> SampleLevels] :
         \E a \in BestSamples(samples) :
            ret' = [op |-> "select_arm", arm |-> a, raised |-> FALSE]
    /\ driven' = (driven /\ ret.op # "select_arm")
    /\ UNCHANGED <<envVars, algo, n_arms, base, egState, c, tsState, ctxState, ctor>>

\* ---------------------------------------------------------------------- UCB
\* Floating point results: a finite number in thousandths, or a special value.
Num(m) == [kind |-> "num", milli |-> m]
PosInf == [kind |-> "inf", milli |-> 0]
NegInf == [kind |-> "-inf", milli |-> 0]
NaN == [kind |-> "nan", milli |-> 0]

\* ln(T) in millionths, T = 1 .. 8
LnMicro == <<0, 693147, 1098612, 1386294, 1609438, 1791759, 1945910, 2079442>>

\* The integer square root, by bisection on lo <= sqrt(x) < hi.
RECURSIVE Bisect(_, _, _)
Bisect(x, lo, hi) ==
    IF hi - lo <= 1 THEN lo
    ELSE LET mid == (lo + hi) \div 2
         IN  IF mid * mid <= x THEN Bisect(x, mid, hi) ELSE Bisect(x, lo, mid)

ISqrt(x) == Bisect(x, 0, 2048)

\* np.log(total_pulls), in millionths
LogF(T) == IF T = 0 THEN NegInf ELSE Num(LnMicro[T])

\* x / counts[arm] for a float64 count (no exception: inf or nan on 0)
DivF(x, n) ==
    IF x.kind = "-inf" THEN NegInf
    ELSE IF n = 0 THEN (IF x.milli = 0 THEN NaN ELSE PosInf)
    ELSE Num(x.milli \div n)

\* np.sqrt of millionths, in thousandths
SqrtF(x) ==
    IF x.kind = "num" THEN Num(ISqrt(x.milli))
    ELSE IF x.kind = "inf" THEN PosInf
    ELSE NaN

\* cc * x for cc in tenths
MulF(cc, x) ==
    IF x.kind = "num" THEN Num((cc * x.milli) \div 10)
    ELSE IF x.kind = "nan" \/ cc = 0 THEN NaN
    ELSE IF (x.kind = "inf") = (cc > 0) THEN PosInf
    ELSE NegInf

\* value + bonus for a finite value
AddF(v, x) ==
    IF x.kind = "num" THEN Num((v.n * 1000) \div v.d + x.milli) ELSE x

\* self.c * np.sqrt(np.log(self.total_pulls) / self.counts[arm])
Bonus(arm) == MulF(c, SqrtF(DivF(LogF(total_pulls), counts[arm])))

\* x < y on floats (false when either is nan)
FLess(x, y) ==
    /\ x.kind # "nan" /\ y.kind # "nan"
    /\ \/ x.kind = "-inf" /\ y.kind # "-inf"
       \/ x.kind # "inf" /\ y.kind = "inf"
       \/ x.kind = "num" /\ y.kind = "num" /\ x.milli < y.milli

\* np.max of a float array indexed 0 .. k: nan as soon as one entry is nan
RECURSIVE FMaxUpTo(_, _)
FMaxUpTo(xs, k) ==
    IF k = 0 THEN xs[0]
    ELSE LET m == FMaxUpTo(xs, k - 1)
         IN  IF m.kind = "nan" \/ xs[k].kind = "nan" THEN NaN
             ELSE IF FLess(m, xs[k]) THEN xs[k] ELSE m

\* np.where(xs == np.max(xs))[0]: nothing equals nan
FBestArms(xs, n) ==
    LET m == FMaxUpTo(xs, n - 1)
    IN  {a \in 0 .. (n - 1) : m.kind # "nan" /\ xs[a] = m}

\* The first loop of UCB.select_arm: the arm it returns, or -1 when it ends.
RECURSIVE FirstUnpulledFrom(_)
FirstUnpulledFrom(arm) ==
    IF arm >= n_arms THEN -1
    ELSE IF counts[arm] = 0 THEN arm
    ELSE FirstUnpulledFrom(arm + 1)

\* A faulty first loop: the highest-indexed unpulled arm.
LastUnpulled ==
    IF \E a \in Arms : counts[a] = 0
    THEN CHOOSE a \in Arms : counts[a] = 0 /\ \A o \in Arms : counts[o] = 0 => o <= a
    ELSE -1

\* A faulty first loop: only arm 0 is looked at.
FirstUnpulledArmZeroOnly == IF counts[0] = 0 THEN 0 ELSE -1

FirstUnpulled == FirstUnpulledFrom(0)

\* The operands of the bonus term of every arm: log's argument, the divisor.
BonusOperands == [a \in Arms |-> [logArg |-> total_pulls, den |-> counts[a]]]

\* UCB.select_arm
UCBSelect ==
    /\ algo = "UCB"
    /\ IF FirstUnpulled # -1
       THEN ret' = [op |-> "select_arm", arm |-> FirstUnpulled, bonus |-> <<>>,
                    raised |-> FALSE]
       ELSE LET ucb_values == [a \in Arms |-> AddF(values[a], Bonus(a))]
                best_arms == FBestArms(ucb_values, n_arms)
            IN  IF best_arms = {}
                THEN ret' = [op |-> "select_arm", bonus |-> BonusOperands,
                             raised |-> TRUE]
                ELSE \E a \in best_arms :
                        ret' = [op |-> "select_arm", arm |-> a,
                                bonus |-> BonusOperands, raised |-> FALSE]
    /\ driven' = (driven /\ ret.op # "select_arm")
    /\ UNCHANGED <<envVars, algo, n_arms, base, egState, c, tsState, ctxState, ctor>>

\* A faulty get_ucb_values: an unpulled arm gets its value estimate.
UcbValuesNoInf ==
    IF total_pulls = 0 THEN [a \in Arms |-> Num(0)]
    ELSE [a \in Arms |->
            IF counts[a] = 0 THEN AddF(values[a], Num(0)) ELSE AddF(values[a], Bonus(a))]

\* UCB.get_ucb_values
UcbValues ==
    IF total_pulls = 0 THEN [a \in Arms |-> Num(0)]
    ELSE [a \in Arms |->
            IF counts[a] = 0 THEN PosInf ELSE AddF(values[a], Bonus(a))]

GetUcbValues ==
    /\ algo = "UCB"
    /\ ret' = [op |-> "get_ucb_values", result |-> UcbValues, raised |-> FALSE]
    /\ UNCHANGED <<envVars, algo, n_arms, base, egState, c, tsState, ctxState, ctor, driven>>

\* --------------------------------------------------------- ContextualBandit
\* f[1] + ... + f[k]
RECURSIVE SumTo(_, _)
SumTo(f, k) == IF k = 0 THEN 0 ELSE f[k] + SumTo(f, k - 1)

\* np.identity(d) * x, np.zeros(d)
Identity(d, x) == [i \in 1 .. d |-> [j \in 1 .. d |-> IF i = j THEN x ELSE 0]]
ZeroVec(d) == [i \in 1 .. d |-> 0]
RatZeroVec(d) == [i \in 1 .. d |-> RatInt(0)]

\* M without row i and column j
Minor(M, i, j) ==
    [r \in 1 .. (Len(M) - 1) |->
        [k \in 1 .. (Len(M) - 1) |->
            M[IF r < i THEN r ELSE r + 1][IF k < j THEN k ELSE k + 1]]]

\* The determinant, expanded along the first row.
RECURSIVE Det(_)
Det(M) ==
    IF Len(M) = 0 THEN 1
    ELSE SumTo([j \in 1 .. Len(M) |->
                  (IF j % 2 = 1 THEN 1 ELSE -1) * M[1][j] * Det(Minor(M, 1, j))],
               Len(M))

\* np.linalg.solve and np.linalg.inv raise LinAlgError on a singular matrix.
Singular(M) == Det(M) = 0

\* M with column j replaced by v
ReplaceCol(M, j, v) ==
    [r \in 1 .. Len(M) |-> [k \in 1 .. Len(M) |-> IF k = j THEN v[r] ELSE M[r][k]]]

\* np.linalg.solve(M, v) for a regular M (Cramer's rule), as rationals
Solve(M, v) == [j \in 1 .. Len(M) |-> Rat(Det(ReplaceCol(M, j, v)), Det(M))]

\* theta[arm].T @ context, as a rational
RECURSIVE RatDotTo(_, _, _)
RatDotTo(th, x, k) ==
    IF k = 0 THEN RatInt(0)
    ELSE RatAdd(RatDotTo(th, x, k - 1), RatMul(th[k], RatInt(x[k])))

\* The theta select_arm assigns to an arm (zeros when A[arm] is singular).
ThetaOf(arm) ==
    IF Singular(A[arm]) THEN RatZeroVec(n_features) ELSE Solve(A[arm], b[arm])

\* The score of an arm without the uncertainty bonus (use_ucb false):
\* theta[arm].T @ context, in thousandths.
Score(arm, context) ==
    LET th == ThetaOf(arm)
        s == RatDotTo(th, context, n_features)
    IN  Num((s.n * 1000) \div s.d)

\* np.argmax: the first index of the maximum (of the first nan, if any)
RECURSIVE ArgMaxTo(_, _)
ArgMaxTo(xs, k) ==
    IF k = 0 THEN 0
    ELSE LET m == ArgMaxTo(xs, k - 1)
         IN  IF xs[m].kind = "nan" THEN m
             ELSE IF xs[k].kind = "nan" \/ FLess(xs[m], xs[k]) THEN k ELSE m

\* The exception that ends select_arm at arm 0 when use_ucb is true:
\* np.linalg.inv(self.A[0]) raises LinAlgError on a singular matrix, and
\* otherwise score += self.alpha * uncertainty adds the (1, 1) array
\* uncertainty in place into the (1,) array score, which raises ValueError.
UcbError == IF Singular(A[0]) THEN "LinAlgError" ELSE "ValueError"

\* The context vectors drawn: the first unit vector and the all-ones vector.
Contexts == {[i \in 1 .. n_features |-> IF i = 1 THEN 1 ELSE 0],
             [i \in 1 .. n_features |-> 1]}

\* ContextualBandit.select_arm(context, use_ucb)
SelectWith(context, use_ucb) ==
    IF use_ucb
    THEN /\ theta' = [theta EXCEPT ![0] = ThetaOf(0)]
         /\ ret' = [op |-> "select_arm", context |-> context, use_ucb |-> use_ucb,
                    error |-> UcbError, raised |-> TRUE]
    ELSE LET scores == [a \in Arms |-> Score(a, context)] IN
         /\ theta' = [a \in Arms |-> ThetaOf(a)]
         /\ ret' = [op |-> "select_arm", arm |-> ArgMaxTo(scores, n_arms - 1),
                    context |-> context, use_ucb |-> use_ucb, raised |-> FALSE]

CtxSelect ==
    /\ algo = "ContextualBandit"
    /\ \E context \in Contexts, use_ucb \in BOOLEAN : SelectWith(context, use_ucb)
    /\ driven' = (driven /\ ret.op # "select_arm")
    /\ UNCHANGED <<envVars, algo, n_arms, base, egState, c, tsState, n_features, ctx_alpha,
                   A, b, ctor>>

\* A faulty product: context * context, laid on the diagonal.
OuterDiagonal(context) ==
    [r \in 1 .. Len(context) |->
        [k \in 1 .. Len(context) |-> IF r = k THEN context[r] * context[k] ELSE 0]]

\* context @ context.T for the column vector context
Outer(context) ==
    [r \in 1 .. Len(context) |-> [k \in 1 .. Len(context) |-> context[r] * context[k]]]

\* Whether an array of k entries (k x k for the outer product) can be added
\* in place into one of d entries (d x d): numpy broadcasts equal shapes and
\* a single entry, and raises ValueError for every other shape.
Broadcastable(k, d) == k = d \/ k = 1

\* ContextualBandit.update(arm, context, reward)
CtxUpdateCall(arm, context, reward) ==
    LET i == Index(arm, n_arms)
        d == n_features
        at(r) == IF Len(context) = 1 THEN 1 ELSE r
    IN
    IF i = -1 \/ ~Broadcastable(Len(context), d)
    THEN /\ ret' = [op |-> "update", arm |-> arm, context |-> context,
                    reward |-> reward, raised |-> TRUE]
         /\ UNCHANGED <<envVars, algo, n_arms, base, egState, c, tsState, ctxState, ctor, driven>>
    ELSE /\ A' = [A EXCEPT ![i] =
                    [r \in 1 .. d |->
                        [k \in 1 .. d |-> @[r][k] + Outer(context)[at(r)][at(k)]]]]
         /\ b' = [b EXCEPT ![i] = [r \in 1 .. d |-> @[r] + reward * context[at(r)]]]
         /\ counts' = [counts EXCEPT ![i] = @ + 1]
         /\ total_pulls' = total_pulls + 1
         /\ total_reward' = total_reward + reward
         /\ rewards_history' = Append(rewards_history, reward)
         /\ arm_history' = Append(arm_history, arm)
         /\ ret' = [op |-> "update", arm |-> arm, context |-> context,
                    reward |-> reward, raised |-> FALSE]
         /\ driven' = (driven /\ Follows(arm))
         /\ UNCHANGED <<envVars, algo, n_arms, values, egState, c, tsState, n_features,
                        ctx_alpha, theta, ctor>>

CtxUpdate ==
    /\ algo = "ContextualBandit"
    /\ total_pulls < MaxCtxPulls
    /\ \E arm \in Arms, context \in Contexts, reward \in Rewards :
         CtxUpdateCall(arm, context, reward)

\* ContextualBandit.reset
CtxReset ==
    /\ algo = "ContextualBandit"
    /\ A' = [a \in Arms |-> Identity(n_features, ctx_alpha)]
    /\ b' = [a \in Arms |-> ZeroVec(n_features)]
    /\ theta' = [a \in Arms |-> RatZeroVec(n_features)]
    /\ total_pulls' = 0
    /\ total_reward' = 0
    /\ counts' = Zeros(n_arms)
    /\ rewards_history' = <<>>
    /\ arm_history' = <<>>
    /\ ret' = [op |-> "reset", raised |-> FALSE]
    /\ driven' = TRUE
    /\ UNCHANGED <<envVars, algo, n_arms, values, egState, c, tsState, n_features, ctx_alpha, ctor>>

\* ---------------------------------------------------------- NewsEnvironment
\* np.random.beta(2, 5), in percent
BetaDraws == {0, 40, 100}

\* seq with x inserted before the first entry smaller than x
RECURSIVE InsertDesc(_, _)
InsertDesc(seq, x) ==
    IF seq = <<>> THEN <<x>>
    ELSE IF Head(seq) < x THEN <<x>> \o seq
    ELSE <<Head(seq)>> \o InsertDesc(Tail(seq), x)

\* A missing sort: the rates in the order drawn.
SortDescNone(seq) == seq

\* np.sort(ctrs)[::-1]
RECURSIVE SortDesc(_)
SortDesc(seq) ==
    IF seq = <<>> THEN <<>> ELSE InsertDesc(SortDesc(Tail(seq)), Head(seq))

\* 0.05 + ctrs * 0.25, in ten-thousandths
ScaleCtr(draw) == 500 + draw * 25

\* np.argmax over an array indexed 0 .. k: the first index of the maximum
RECURSIVE ArgMaxInt(_, _)
ArgMaxInt(xs, k) ==
    IF k = 0 THEN 0
    ELSE LET m == ArgMaxInt(xs, k - 1) IN IF xs[m] < xs[k] THEN k ELSE m

Categories == <<"Politics", "Technology", "Sports", "Entertainment",
                "Business", "Science", "Health", "World">>

\* categories[i % len(categories)]
Category(i) == Categories[(i % Len(Categories)) + 1]

\* NewsEnvironment.__init__ with _generate_articles
EnvInit ==
    /\ n_articles \in 1 .. MaxArms
    /\ \E draws \in [1 .. n_articles -> BetaDraws] :
         LET ctrs == SortDesc([i \in 1 .. n_articles |-> ScaleCtr(draws[i])])
         IN  articles = [i \in 0 .. (n_articles - 1) |->
                            [id |-> i, category |-> Category(i),
                             true_ctr |-> ctrs[i + 1]]]
    /\ true_ctrs = [i \in 0 .. (n_articles - 1) |-> articles[i].true_ctr]
    /\ optimal_arm = ArgMaxInt(true_ctrs, n_articles - 1)
    /\ optimal_ctr = true_ctrs[optimal_arm]
    /\ env_ret = [op |-> "init", raised |-> FALSE]

\* np.random.random(), in ten-thousandths
UniformEnv == {0, 1000, 2500, 5000, 9999}

\* NewsEnvironment.pull_arm(arm)
PullArmCall(arm) ==
    LET i == Index(arm, n_articles) IN
    /\ IF i = -1
       THEN env_ret' = [op |-> "pull_arm", arm |-> arm, raised |-> TRUE]
       ELSE \E u \in UniformEnv :
               env_ret' = [op |-> "pull_arm", arm |-> arm, slot |-> i,
                           reward |-> IF u < true_ctrs[i] THEN 1 ELSE 0,
                           raised |-> FALSE]
    /\ UNCHANGED <<polVars, envTruth>>

\* The users generate_user can return: an age and min(3, #categories)
\* preferred categories among those of the articles.
Ages == {18, 25, 35, 45, 55, 65}
ArticleCategories == {articles[i].category : i \in 0 .. (n_articles - 1)}
Users ==
    {[age |-> a, preferred_categories |-> P] :
        a \in Ages,
        P \in {Q \in SUBSET ArticleCategories :
                  Cardinality(Q) = Min(3, Cardinality(ArticleCategories))}}

\* adjusted_ctr of contextual_pull, in ten-thousandths
AdjustedCtr(i, user) ==
    LET category == articles[i].category
        boost == IF category \in user.preferred_categories THEN 1000 ELSE 0
        extra == IF user.age < 35 /\ category \in {"Technology", "Entertainment"}
                 THEN 500
                 ELSE IF user.age >= 55 /\ category \in {"Health", "Business"}
                 THEN 500
                 ELSE 0
    IN  Min(9500, articles[i].true_ctr + boost + extra)

\* A faulty contextual_pull: the adjusted rate is stored in the article.
ContextualPullStores(arm, user) ==
    LET i == Index(arm, n_articles) IN
    /\ IF i = -1
       THEN /\ env_ret' = [op |-> "contextual_pull", arm |-> arm, raised |-> TRUE]
            /\ articles' = articles
       ELSE /\ \E u \in UniformEnv :
                 env_ret' = [op |-> "contextual_pull", arm |-> arm, slot |-> i,
                             reward |-> IF u < AdjustedCtr(i, user) THEN 1 ELSE 0,
                             raised |-> FALSE]
            /\ articles' = [articles EXCEPT ![i].true_ctr = AdjustedCtr(i, user)]
    /\ UNCHANGED <<polVars, n_articles, true_ctrs, optimal_arm, optimal_ctr>>

\* NewsEnvironment.contextual_pull(arm, user)
ContextualPullCall(arm, user) ==
    LET i == Index(arm, n_articles) IN
    /\ IF i = -1
       THEN env_ret' = [op |-> "contextual_pull", arm |-> arm, raised |-> TRUE]
       ELSE \E u \in UniformEnv :
               env_ret' = [op |-> "contextual_pull", arm |-> arm, slot |-> i,
                           reward |-> IF u < AdjustedCtr(i, user) THEN 1 ELSE 0,
                           raised |-> FALSE]
    /\ UNCHANGED <<polVars, envTruth>>

\* A faulty cumsum: the entries themselves.
CumSumNone(seq) == seq

\* np.cumsum of a sequence
RECURSIVE CumSum(_)
CumSum(seq) ==
    IF seq = <<>> THEN <<>>
    ELSE LET front == CumSum(SubSeq(seq, 1, Len(seq) - 1))
         IN  Append(front, (IF front = <<>> THEN 0 ELSE front[Len(front)])
                           + seq[Len(seq)])

\* A faulty regret: every round is charged for the first arm of the history.
RegretOfFirstArm(hist) ==
    LET regret == [t \in 1 .. Len(hist) |->
                      optimal_ctr - true_ctrs[Index(hist[1], n_articles)]]
    IN  CumSum(regret)

\* NewsEnvironment.calculate_regret(arm_history) for indices that exist
Regret(hist) ==
    LET actual_rewards == [t \in 1 .. Len(hist) |->
                              true_ctrs[Index(hist[t], n_articles)]]
        regret == [t \in 1 .. Len(hist) |-> optimal_ctr - actual_rewards[t]]
    IN  CumSum(regret)

CalculateRegretCall(hist) ==
    /\ IF \E t \in 1 .. Len(hist) : Index(hist[t], n_articles) = -1
       THEN env_ret' = [op |-> "calculate_regret", arm_history |-> hist,
                        raised |-> TRUE]
       ELSE env_ret' = [op |-> "calculate_regret", arm_history |-> hist,
                        result |-> Regret(hist), raised |-> FALSE]
    /\ UNCHANGED <<polVars, envTruth>>

\* Sequences of at most k entries of S
SeqsUpTo(S, k) == UNION {[1 .. m -> S] : m \in 0 .. k}

PullArm == \E arm \in 0 .. (n_articles - 1) : PullArmCall(arm)

ContextualPull ==
    \E arm \in 0 .. (n_articles - 1), user \in Users : ContextualPullCall(arm, user)

CalculateRegret ==
    \E hist \in SeqsUpTo(0 .. (n_articles - 1), MaxHist) : CalculateRegretCall(hist)

\* ------------------------------------------------------------ construction
\* The constructor arguments drawn.
Epsilons == {0, 50, 100}
CValues == {1, 20}
PriorPairs == {<<1, 1>>, <<2, 3>>}
Lambdas == {0, 1}
FeatureCounts == {1, 2}

\* BanditAlgorithm.__init__
BaseInit(n) ==
    /\ n_arms = n
    /\ counts = Zeros(n)
    /\ values = RatZeros(n)
    /\ total_pulls = 0
    /\ total_reward = 0
    /\ rewards_history = <<>>
    /\ arm_history = <<>>

NoEG == epsilon = 0 /\ exploration_count = 0 /\ exploitation_count = 0
NoTS == alpha = <<>> /\ beta = <<>>
NoCtx == n_features = 0 /\ ctx_alpha = 0 /\ A = <<>> /\ b = <<>> /\ theta = <<>>

\* EpsilonGreedy.__init__
InitEG(n) ==
    /\ algo = "EpsilonGreedy"
    /\ BaseInit(n)
    /\ epsilon \in Epsilons
    /\ exploration_count = 0
    /\ exploitation_count = 0
    /\ ctor = [epsilon |-> epsilon]
    /\ c = 0 /\ NoTS /\ NoCtx

\* UCB.__init__
InitUCB(n) ==
    /\ algo = "UCB"
    /\ BaseInit(n)
    /\ c \in CValues
    /\ ctor = [c |-> c]
    /\ NoEG /\ NoTS /\ NoCtx

\* ThompsonSampling.__init__
InitTS(n) ==
    /\ algo = "ThompsonSampling"
    /\ BaseInit(n)
    /\ \E prior \in PriorPairs :
         /\ alpha = Filled(n, prior[1])
         /\ beta = Filled(n, prior[2])
         /\ ctor = [alpha_prior |-> prior[1], beta_prior |-> prior[2]]
    /\ c = 0 /\ NoEG /\ NoCtx

\* ContextualBandit.__init__
InitCtx(n) ==
    /\ algo = "ContextualBandit"
    /\ n_arms = n
    /\ n_features \in FeatureCounts
    /\ ctx_alpha \in Lambdas
    /\ A = [a \in 0 .. (n - 1) |-> Identity(n_features, ctx_alpha)]
    /\ b = [a \in 0 .. (n - 1) |-> ZeroVec(n_features)]
    /\ theta = [a \in 0 .. (n - 1) |-> RatZeroVec(n_features)]
    /\ total_pulls = 0
    /\ total_reward = 0
    /\ counts = Zeros(n)
    /\ rewards_history = <<>>
    /\ arm_history = <<>>
    /\ values = <<>>
    /\ ctor = [n_features |-> n_features, alpha |-> ctx_alpha]
    /\ c = 0 /\ NoEG /\ NoTS

\* No environment, no policy: the values of the variables of an object that
\* a specification does not construct.
NoEnv ==
    /\ n_articles = 0 /\ articles = <<>> /\ true_ctrs = <<>>
    /\ optimal_arm = 0 /\ optimal_ctr = 0
    /\ env_ret = [op |-> "none", raised |-> FALSE]

NoPolicy ==
    /\ algo = "none" /\ n_arms = 0 /\ counts = <<>> /\ values = <<>>
    /\ total_pulls = 0 /\ total_reward = 0
    /\ rewards_history = <<>> /\ arm_history = <<>>
    /\ c = 0 /\ NoEG /\ NoTS /\ NoCtx
    /\ ctor = <<>>
    /\ ret = [op |-> "none", raised |-> FALSE]
    /\ driven = TRUE

PolicyInit ==
    /\ \E n \in 1 .. MaxArms : InitEG(n) \/ InitUCB(n) \/ InitTS(n) \/ InitCtx(n)
    /\ ret = [op |-> "init", raised |-> FALSE]
    /\ driven = TRUE

\* Neither run_simulation nor compare_algorithms has been called.
NoSim == sim = [pc |-> "none"] /\ cmp = [pc |-> "none"]

Init == PolicyInit /\ NoEnv /\ NoSim

Next ==
    \/ Update /\ UNCHANGED simVars
    \/ Reset /\ UNCHANGED simVars
    \/ EGSelect /\ UNCHANGED simVars
    \/ UCBSelect /\ UNCHANGED simVars
    \/ GetUcbValues /\ UNCHANGED simVars
    \/ TSSelect /\ UNCHANGED simVars
    \/ CtxSelect /\ UNCHANGED simVars
    \/ CtxUpdate /\ UNCHANGED simVars
    \/ CtxReset /\ UNCHANGED simVars

Spec == Init /\ [][Next]_vars

\* The environment alone.
InitEnv == NoPolicy /\ EnvInit /\ NoSim

NextEnv ==
    \/ PullArm /\ UNCHANGED simVars
    \/ ContextualPull /\ UNCHANGED simVars
    \/ CalculateRegret /\ UNCHANGED simVars

SpecEnv == InitEnv /\ [][NextEnv]_vars

\* Calls with any integer as the arm, on a policy and on an environment.
RawArms(n) == (-(n + 1)) .. n

PullArmRaw == \E arm \in RawArms(n_articles) : PullArmCall(arm)

ContextualPullRaw ==
    \E arm \in RawArms(n_articles), user \in Users : ContextualPullCall(arm, user)

UpdateRaw ==
    /\ algo \in {"EpsilonGreedy", "UCB", "ThompsonSampling"}
    /\ total_pulls < MaxRawPulls
    /\ \E arm \in RawArms(n_arms), reward \in Rewards : UpdateCall(arm, reward)

CtxUpdateRaw ==
    /\ algo = "ContextualBandit"
    /\ total_pulls < MaxRawPulls
    /\ \E arm \in RawArms(n_arms), context \in Contexts, reward \in Rewards :
         CtxUpdateCall(arm, context, reward)

InitIndex == PolicyInit /\ EnvInit /\ NoSim

NextIndex ==
    \/ PullArmRaw /\ UNCHANGED simVars
    \/ ContextualPullRaw /\ UNCHANGED simVars
    \/ UpdateRaw /\ UNCHANGED simVars
    \/ CtxUpdateRaw /\ UNCHANGED simVars

SpecIndex == InitIndex /\ [][NextIndex]_vars

\* -------------------------------------------------------------- simulation
MaxPrePulls == 1
MaxTrialRounds == 2

\* The arguments drawn: n_rounds, n_simulations, the number of policies of
\* the mapping, and the number of arms and of articles.
RoundCounts == {-1, 0, 1, 2}
SimulationCounts == {-1, 0, 1, 2}
MappingSizes == {1, 2}
SimSizes == {1, 2}

\* The ages and locations drawn for a user.
Locations == <<"US-East", "US-West", "Europe", "Asia", "Other">>
AgesDrawn == {25, 65}
LocationsDrawn == {1, 5}

\* The users generate_user returns; feature_vector in hundredths.
GeneratedUsers ==
    {[age |-> u.age, location |-> Locations[l],
      preferred_categories |-> u.preferred_categories,
      feature_vector |-> <<u.age, ((l - 1) * 100) \div Len(Locations), 50, 50, 50>>] :
        u \in {v \in Users : v.age \in AgesDrawn}, l \in LocationsDrawn}

\* NewsEnvironment.generate_user()
GenerateUserCall ==
    /\ \E user \in GeneratedUsers :
         env_ret' = [op |-> "generate_user", result |-> user, raised |-> FALSE]
    /\ UNCHANGED <<polVars, envTruth>>

\* hasattr(algorithm, 'n_features')
HasNFeatures == algo = "ContextualBandit"

\* ContextualBandit.select_arm(context) with a context of another length
\* than n_features: theta[0] is assigned, then theta[0].T @ context raises.
SelectMismatch(context) ==
    /\ algo = "ContextualBandit"
    /\ Len(context) # n_features
    /\ theta' = [theta EXCEPT ![0] = ThetaOf(0)]
    /\ ret' = [op |-> "select_arm", context |-> context, use_ucb |-> TRUE,
               raised |-> TRUE]
    /\ driven' = (driven /\ ret.op # "select_arm")
    /\ UNCHANGED <<envVars, algo, n_arms, base, egState, c, tsState, n_features,
                   ctx_alpha, A, b, ctor>>

\* select_arm() on a ContextualBandit: the context argument is missing.
SelectMissingContext ==
    /\ algo = "ContextualBandit"
    /\ ret' = [op |-> "select_arm", raised |-> TRUE]
    /\ UNCHANGED <<envVars, algo, n_arms, base, egState, c, tsState, ctxState,
                   ctor, driven>>

\* update(arm, reward) on a ContextualBandit: the reward argument is missing.
UpdateMissingContext(arm, reward) ==
    /\ algo = "ContextualBandit"
    /\ ret' = [op |-> "update", arm |-> arm, reward |-> reward, raised |-> TRUE]
    /\ UNCHANGED <<envVars, algo, n_arms, base, egState, c, tsState, ctxState,
                   ctor, driven>>

\* A loop that leaves after one round too many.
RangeDoneLate(t, n) == t > n

\* for t in range(n): whether the loop has ended before round t
RangeDone(t, n) == t >= n

\* The position of run_simulation at the head of round t.
LoopHead(t, n_rounds, use_context) ==
    IF RangeDone(t, n_rounds) THEN "regret"
    ELSE IF use_context THEN "user" ELSE "select"

\* run_simulation entered: empty results, cumulative_reward = 0.
\* user is <<>> for None and <<u>> for a user u.
SimFrame(n_rounds, use_context, caller) ==
    [pc |-> LoopHead(0, n_rounds, use_context), caller |-> caller,
     n_rounds |-> n_rounds, use_context |-> use_context,
     t |-> 0, user |-> <<>>, arm |-> 0, reward |-> 0, cumulative_reward |-> 0,
     rewards |-> <<>>, arms |-> <<>>, regret |-> <<>>, ctr_evolution |-> <<>>]

\* Rewards the policy received before the simulation is called.
SimPreUpdate ==
    /\ sim.pc = "none" /\ cmp.pc = "none"
    /\ algo \in {"EpsilonGreedy", "UCB", "ThompsonSampling"}
    /\ total_pulls < MaxPrePulls
    /\ \E arm \in Arms, reward \in Rewards : UpdateCall(arm, reward)
    /\ UNCHANGED simVars

\* run_simulation(algorithm, environment, n_rounds, use_context) is called.
SimCall ==
    /\ sim.pc = "none" /\ cmp.pc = "none"
    /\ \E n_rounds \in RoundCounts, use_context \in BOOLEAN :
         sim' = SimFrame(n_rounds, use_context, "top")
    /\ UNCHANGED <<polVars, envVars, cmp>>

\* user = environment.generate_user() if use_context else None
SimUser ==
    /\ sim.pc = "user"
    /\ GenerateUserCall
    /\ sim' = [sim EXCEPT !.user = <<env_ret'.result>>, !.pc = "select"]
    /\ UNCHANGED cmp

\* arm = algorithm.select_arm(user.feature_vector) or algorithm.select_arm()
SimSelect ==
    /\ sim.pc = "select"
    /\ IF sim.use_context /\ HasNFeatures
       THEN SelectMismatch(sim.user[1].feature_vector)
       ELSE \/ EGSelectCall
            \/ UCBSelect
            \/ TSSelect
            \/ SelectMissingContext
    /\ sim' = IF ret'.raised THEN [sim EXCEPT !.pc = "raised"]
              ELSE [sim EXCEPT !.arm = ret'.arm, !.pc = "pull"]
    /\ UNCHANGED cmp

\* reward = environment.contextual_pull(arm, user) or environment.pull_arm(arm)
SimPull ==
    /\ sim.pc = "pull"
    /\ IF sim.use_context /\ sim.user # <<>>
       THEN ContextualPullCall(sim.arm, sim.user[1])
       ELSE PullArmCall(sim.arm)
    /\ sim' = IF env_ret'.raised THEN [sim EXCEPT !.pc = "raised"]
              ELSE [sim EXCEPT !.reward = env_ret'.reward, !.pc = "update"]
    /\ UNCHANGED cmp

\* A faulty running rate: the rewards the policy holds, over the rounds run.
CurrentCtrOfPolicy(cumulative_reward, t) == Rat(total_reward', t + 1)

\* current_ctr = cumulative_reward / (t + 1)
CurrentCtr(cumulative_reward, t) == Rat(cumulative_reward, t + 1)

\* algorithm.update(...), then the results of the round are recorded.
SimUpdate ==
    /\ sim.pc = "update"
    /\ IF HasNFeatures
       THEN IF sim.use_context /\ sim.user # <<>>
            THEN CtxUpdateCall(sim.arm, sim.user[1].feature_vector, sim.reward)
            ELSE UpdateMissingContext(sim.arm, sim.reward)
       ELSE UpdateCall(sim.arm, sim.reward)
    /\ sim' = IF ret'.raised THEN [sim EXCEPT !.pc = "raised"]
              ELSE LET cumulative_reward == sim.cumulative_reward + sim.reward IN
                   [sim EXCEPT
                      !.cumulative_reward = cumulative_reward,
                      !.rewards = Append(@, sim.reward),
                      !.arms = Append(@, sim.arm),
                      !.ctr_evolution = Append(@, CurrentCtr(cumulative_reward, sim.t)),
                      !.t = sim.t + 1,
                      !.pc = LoopHead(sim.t + 1, sim.n_rounds, sim.use_context)]
    /\ UNCHANGED cmp

\* results['regret'] = environment.calculate_regret(results['arms']); return
SimReturn ==
    /\ sim.pc = "regret"
    /\ CalculateRegretCall(sim.arms)
    /\ sim' = IF env_ret'.raised THEN [sim EXCEPT !.pc = "raised"]
              ELSE [sim EXCEPT !.regret = env_ret'.result, !.pc = "done"]
    /\ UNCHANGED cmp

\* The state of the policy object the policy variables hold.
PolicyState ==
    [algo |-> algo, n_arms |-> n_arms, counts |-> counts, values |-> values,
     total_pulls |-> total_pulls, total_reward |-> total_reward,
     rewards_history |-> rewards_history, arm_history |-> arm_history,
     epsilon |-> epsilon, exploration_count |-> exploration_count,
     exploitation_count |-> exploitation_count, c |-> c,
     alpha |-> alpha, beta |-> beta, n_features |-> n_features,
     ctx_alpha |-> ctx_alpha, A |-> A, b |-> b, theta |-> theta,
     ctor |-> ctor, ret |-> ret, driven |-> driven]

\* The policy variables come to hold the policy object p.
Load(p) ==
    /\ algo' = p.algo /\ n_arms' = p.n_arms
    /\ counts' = p.counts /\ values' = p.values
    /\ total_pulls' = p.total_pulls /\ total_reward' = p.total_reward
    /\ rewards_history' = p.rewards_history /\ arm_history' = p.arm_history
    /\ epsilon' = p.epsilon /\ exploration_count' = p.exploration_count
    /\ exploitation_count' = p.exploitation_count /\ c' = p.c
    /\ alpha' = p.alpha /\ beta' = p.beta
    /\ n_features' = p.n_features /\ ctx_alpha' = p.ctx_alpha
    /\ A' = p.A /\ b' = p.b /\ theta' = p.theta
    /\ ctor' = p.ctor /\ ret' = p.ret /\ driven' = p.driven

\* A policy object after BanditAlgorithm.__init__(n)
FreshBase(n) ==
    [n_arms |-> n, counts |-> Zeros(n), values |-> RatZeros(n),
     total_pulls |-> 0, total_reward |-> 0,
     rewards_history |-> <<>>, arm_history |-> <<>>,
     epsilon |-> 0, exploration_count |-> 0, exploitation_count |-> 0, c |-> 0,
     alpha |-> <<>>, beta |-> <<>>, n_features |-> 0, ctx_alpha |-> 0,
     A |-> <<>>, b |-> <<>>, theta |-> <<>>,
     ret |-> [op |-> "init", raised |-> FALSE], driven |-> TRUE]

\* EpsilonGreedy(n, epsilon), UCB(n, c), ThompsonSampling(n, prior)
FreshEG(n, eps) ==
    [algo |-> "EpsilonGreedy", ctor |-> [epsilon |-> eps]]
        @@ [FreshBase(n) EXCEPT !.epsilon = eps]
FreshUCB(n, cc) ==
    [algo |-> "UCB", ctor |-> [c |-> cc]] @@ [FreshBase(n) EXCEPT !.c = cc]
FreshTS(n, prior) ==
    [algo |-> "ThompsonSampling",
     ctor |-> [alpha_prior |-> prior[1], beta_prior |-> prior[2]]]
        @@ [FreshBase(n) EXCEPT !.alpha = Filled(n, prior[1]),
                                !.beta = Filled(n, prior[2])]

\* The freshly constructed policies drawn for the rest of a mapping: one of
\* each non-contextual class, with n arms.
FreshPolicies(n) ==
    {FreshEG(n, 50), FreshUCB(n, 20), FreshTS(n, <<1, 1>>)}

\* The keys of the mapping, in its order.
Names == <<"first", "second", "third", "fourth">>

\* sum(...) of a sequence of numbers
RECURSIVE Sum(_)
Sum(seq) == IF seq = <<>> THEN 0 ELSE Head(seq) + Sum(Tail(seq))

\* nan
RatNaN == [n |-> 0, d |-> 0]

\* np.mean of a sequence of integers: nan for the empty sequence
Mean(seq) == IF seq = <<>> THEN RatNaN ELSE Rat(Sum(seq), Len(seq))

\* float / int: nan stays nan, x / 0 is nan or an infinity (sign / 0)
RatDivInt(x, k) ==
    IF x.d = 0 THEN x
    ELSE IF k = 0 THEN [n |-> IF x.n > 0 THEN 1 ELSE IF x.n < 0 THEN -1 ELSE 0, d |-> 0]
    ELSE Rat(x.n, x.d * k)

\* A faulty 'Avg CTR': the mean is divided by the number of trials.
AvgCtrPerTrial(total_rewards, n_rounds) ==
    RatDivInt(Mean(total_rewards), Len(total_rewards))

\* 'Avg CTR': np.mean(total_rewards) / n_rounds
AvgCtr(total_rewards, n_rounds) == RatDivInt(Mean(total_rewards), n_rounds)

\* A faulty loop: the policy is reset before the first trial only.
ResetsBeforeFirstTrial(s) == s = 0

\* Whether trial s of a policy starts with algorithm.reset(): each one does.
ResetsBeforeTrial(s) == TRUE

\* The position of compare_algorithms at the head of trial s.
TrialHead(s, n_simulations) == IF RangeDone(s, n_simulations) THEN "row" ELSE "trial"

\* compare_algorithms(algorithms, environment, n_rounds, n_simulations) is
\* called; the first policy of the mapping is the one the policy variables
\* hold, the others are freshly constructed. The mapping is, in its order,
\* the policies finished, the one the policy variables hold, and the ones
\* waiting. trials keeps, for each policy begun, the rewards of each of its
\* trials.
CmpCall ==
    /\ sim.pc = "none" /\ cmp.pc = "none"
    /\ \E n_rounds \in RoundCounts, n_simulations \in SimulationCounts,
          size \in MappingSizes :
       /\ n_rounds * n_simulations <= MaxTrialRounds
       /\ \E others \in [1 .. (size - 1) -> FreshPolicies(n_articles)] :
           cmp' = [pc |-> TrialHead(0, n_simulations),
                 finished |-> <<>>, waiting |-> others,
                 n_rounds |-> n_rounds, n_simulations |-> n_simulations,
                 s |-> 0, total_rewards |-> <<>>, final_regrets |-> <<>>,
                 trials |-> <<<<>>>>, results |-> <<>>]
    /\ UNCHANGED <<polVars, envVars, sim>>

\* algorithm.reset(); run_simulation(algorithm, environment, n_rounds) called
CmpReset ==
    /\ cmp.pc = "trial"
    /\ IF ResetsBeforeTrial(cmp.s)
       THEN Reset \/ CtxReset
       ELSE UNCHANGED <<polVars, envVars>>
    /\ sim' = SimFrame(cmp.n_rounds, FALSE, "compare_algorithms")
    /\ cmp' = [cmp EXCEPT !.pc = "run"]

\* total_rewards.append(sum(rewards)); final_regrets.append(regret[-1])
CmpCollect ==
    /\ cmp.pc = "run"
    /\ sim.pc \in {"done", "raised"}
    /\ cmp' = IF sim.pc = "raised" \/ sim.regret = <<>>
              THEN [cmp EXCEPT !.pc = "raised",
                       !.total_rewards =
                           IF sim.pc = "raised" THEN @ ELSE Append(@, Sum(sim.rewards))]
              ELSE [cmp EXCEPT
                       !.total_rewards = Append(@, Sum(sim.rewards)),
                       !.final_regrets = Append(@, sim.regret[Len(sim.regret)]),
                       !.trials[Len(cmp.trials)] = Append(@, sim.rewards),
                       !.s = cmp.s + 1,
                       !.pc = TrialHead(cmp.s + 1, cmp.n_simulations)]
    /\ sim' = [pc |-> "returned"]
    /\ UNCHANGED <<polVars, envVars>>

\* results.append({...}); the next policy of the mapping, or the return
CmpRow ==
    /\ cmp.pc = "row"
    /\ LET row == [Algorithm |-> Names[Len(cmp.finished) + 1],
                   AvgTotalReward |-> Mean(cmp.total_rewards),
                   AvgFinalRegret |-> Mean(cmp.final_regrets),
                   AvgCTR |-> AvgCtr(cmp.total_rewards, cmp.n_rounds)]
           stored == [cmp EXCEPT !.finished = Append(@, PolicyState),
                                 !.results = Append(@, row)]
       IN  IF cmp.waiting # <<>>
           THEN /\ Load(Head(cmp.waiting))
                /\ cmp' = [stored EXCEPT !.waiting = Tail(@), !.s = 0,
                                         !.total_rewards = <<>>,
                                         !.final_regrets = <<>>,
                                         !.trials = Append(@, <<>>),
                                         !.pc = TrialHead(0, cmp.n_simulations)]
           ELSE /\ cmp' = [stored EXCEPT !.pc = "done"]
                /\ UNCHANGED polVars
    /\ UNCHANGED <<envVars, sim>>

\* A policy and an environment, and one call of run_simulation or of
\* compare_algorithms on them.
InitSim ==
    /\ PolicyInit /\ EnvInit /\ NoSim
    /\ n_arms \in SimSizes /\ n_articles \in SimSizes

NextSim ==
    \/ SimPreUpdate
    \/ SimCall
    \/ SimUser
    \/ SimSelect
    \/ SimPull
    \/ SimUpdate
    \/ SimReturn
    \/ CmpCall
    \/ CmpReset
    \/ CmpCollect
    \/ CmpRow

SpecSim == InitSim /\ [][NextSim]_vars

\* ------------------------------------------------------ setters and getters
\* The values passed to set_epsilon (percent) and to set_c (tenths), and the
\* confidence levels passed to get_confidence_intervals (percent).
EpsilonArgs == {-10, 0, 50, 100, 150}
CArgs == {-10, 0, 1, 30}
Confidences == {-50, 0, 50, 95, 100, 150}

Max(p, q) == IF p > q THEN p ELSE q

\* An epsilon that is stored as it is given.
ClampEpsilonNone(v) == v

\* max(0.0, min(1.0, epsilon)), in percent
ClampEpsilon(v) == Max(0, Min(100, v))

\* max(0.1, c), in tenths
ClampC(v) == Max(1, v)

\* EpsilonGreedy.set_epsilon(epsilon)
SetEpsilon ==
    /\ algo = "EpsilonGreedy"
    /\ \E v \in EpsilonArgs :
         /\ epsilon' = ClampEpsilon(v)
         /\ ret' = [op |-> "set_epsilon", value |-> v, raised |-> FALSE]
    /\ UNCHANGED <<envVars, algo, n_arms, base, exploration_count, exploitation_count,
                   c, tsState, ctxState, ctor, driven>>

\* UCB.set_c(c)
SetC ==
    /\ algo = "UCB"
    /\ \E v \in CArgs :
         /\ c' = ClampC(v)
         /\ ret' = [op |-> "set_c", value |-> v, raised |-> FALSE]
    /\ UNCHANGED <<envVars, algo, n_arms, base, egState, tsState, ctxState, ctor, driven>>

\* stats.beta.ppf(q, a, b) for a probability q = [n, d]: nan outside [0, 1],
\* 0 and 1 at the ends, and otherwise the quantile, kept as a term.
BetaPpf(q, p, r) ==
    IF q.n < 0 \/ q.n > q.d THEN NaN
    ELSE IF q.n = 0 THEN Num(0)
    ELSE IF q.n = q.d THEN Num(1000)
    ELSE [kind |-> "quantile", q |-> q, a |-> p, b |-> r]

\* alpha_val = (1 - confidence) / 2, for a confidence in percent
AlphaVal(confidence) == Rat(100 - confidence, 200)

\* ThompsonSampling.get_confidence_intervals(confidence)
GetConfidenceIntervals ==
    /\ algo = "ThompsonSampling"
    /\ \E confidence \in Confidences :
         LET alpha_val == AlphaVal(confidence)
             upper_val == Rat(alpha_val.d - alpha_val.n, alpha_val.d)
         IN  ret' = [op |-> "get_confidence_intervals", confidence |-> confidence,
                     lower |-> [a \in Arms |-> BetaPpf(alpha_val, alpha[a], beta[a])],
                     upper |-> [a \in Arms |-> BetaPpf(upper_val, alpha[a], beta[a])],
                     raised |-> FALSE]
    /\ UNCHANGED <<envVars, algo, n_arms, base, egState, c, tsState, ctxState, ctor, driven>>

\* A faulty hand-out: the array or list of the policy itself.
CopyNone(field, value) == [field |-> field, shared |-> TRUE, value |-> value]

\* x.copy(): a new array or list with the contents of the field. A returned
\* array or list is a handle: the field it was read from, whether it is the
\* policy's own object, and its contents.
Copy(field, value) == [field |-> field, shared |-> FALSE, value |-> value]

\* get_metrics() of EpsilonGreedy, UCB and ThompsonSampling (inherited) and
\* of ContextualBandit (no 'values')
GetMetrics ==
    /\ algo # "none"
    /\ LET scalars == [total_pulls |-> total_pulls,
                       total_reward |-> total_reward,
                       average_reward |-> Rat(total_reward, Max(1, total_pulls))]
           lists == [counts |-> Copy("counts", counts),
                     rewards_history |-> Copy("rewards_history", rewards_history),
                     arm_history |-> Copy("arm_history", arm_history)]
       IN  ret' = [op |-> "get_metrics", raised |-> FALSE,
                   scalars |-> scalars,
                   result |-> IF algo = "ContextualBandit" THEN lists
                              ELSE [values |-> Copy("values", values)] @@ lists]
    /\ UNCHANGED <<envVars, algo, n_arms, base, egState, c, tsState, ctxState, ctor, driven>>

\* ThompsonSampling.get_distributions()
GetDistributions ==
    /\ algo = "ThompsonSampling"
    /\ ret' = [op |-> "get_distributions", raised |-> FALSE,
               result |-> [alpha |-> Copy("alpha", alpha),
                           beta |-> Copy("beta", beta)]]
    /\ UNCHANGED <<envVars, algo, n_arms, base, egState, c, tsState, ctxState, ctor, driven>>

\* What the caller writes into a returned object: x[0] = 7 into an array,
\* x.append(7) to a list.
Written(field, value) ==
    IF field \in {"rewards_history", "arm_history"} THEN Append(value, 7)
    ELSE IF field = "values" THEN [value EXCEPT ![0] = RatInt(7)]
    ELSE [value EXCEPT ![0] = 7]

\* The field of the policy after the caller wrote through handle h: changed
\* when h is the policy's own object.
AfterWrite(h, field, value) ==
    IF h.shared /\ h.field = field THEN Written(field, h.value) ELSE value

\* The caller mutates one of the arrays or lists the last get_metrics or
\* get_distributions call returned.
MutateReturned ==
    /\ ret.op \in {"get_metrics", "get_distributions"}
    /\ \E key \in DOMAIN ret.result :
         LET h == ret.result[key] IN
         /\ ret' = [op |-> "mutate_returned", key |-> key, raised |-> FALSE,
                    value |-> Written(h.field, h.value)]
         /\ counts' = AfterWrite(h, "counts", counts)
         /\ values' = AfterWrite(h, "values", values)
         /\ rewards_history' = AfterWrite(h, "rewards_history", rewards_history)
         /\ arm_history' = AfterWrite(h, "arm_history", arm_history)
         /\ alpha' = AfterWrite(h, "alpha", alpha)
         /\ beta' = AfterWrite(h, "beta", beta)
    /\ UNCHANGED <<envVars, algo, n_arms, total_pulls, total_reward, egState, c,
                   ctxState, ctor, driven>>

\* A policy with its updates, setters and queries, and a caller that writes
\* into what the queries returned.
NextParams ==
    \/ Update /\ UNCHANGED simVars
    \/ CtxUpdate /\ UNCHANGED simVars
    \/ GetMetrics /\ UNCHANGED simVars
    \/ GetDistributions /\ UNCHANGED simVars
    \/ MutateReturned /\ UNCHANGED simVars
    \/ SetEpsilon /\ UNCHANGED simVars
    \/ SetC /\ UNCHANGED simVars
    \/ GetConfidenceIntervals /\ UNCHANGED simVars

SpecParams == Init /\ [][NextParams]_vars

\* ==================================================================== claims
\* The rounds of the history recorded for arm a.
RoundsOf(a) == {t \in 1 .. Len(arm_history) : arm_history[t] = a}

\* The sum of the rewards of a set of rounds.
RECURSIVE RewardSum(_)
RewardSum(T) ==
    IF T = {} THEN 0
    ELSE LET t == CHOOSE x \in T : TRUE
         IN  rewards_history[t] + RewardSum(T \ {t})

ValuePolicies == {"EpsilonGreedy", "UCB", "ThompsonSampling"}

\* C1: for EpsilonGreedy, UCB and ThompsonSampling, values[arm] is the
\* arithmetic mean of the rewards passed to update for that arm since the
\* last reset, and 0 for an arm not updated since then.
C1_ValueIsMean ==
    algo \in ValuePolicies =>
        \A a \in Arms :
            IF RoundsOf(a) = {}
            THEN values[a] = RatInt(0)
            ELSE values[a] = Rat(RewardSum(RoundsOf(a)), Cardinality(RoundsOf(a)))

C1_Witness ==
    /\ algo \in ValuePolicies
    /\ \E a \in Arms : Cardinality(RoundsOf(a)) = 3 /\ values[a] = Rat(2, 3)

\* C2: for every policy class, the sum over all arms of counts[arm] equals
\* total_pulls in every state reached by select_arm, update and reset calls.
C2_CountsSumToTotal ==
    algo # "none" => SumTo([k \in 1 .. n_arms |-> counts[k - 1]], n_arms) = total_pulls

C2_Witness ==
    /\ algo = "ContextualBandit"
    /\ n_arms = 2
    /\ counts[0] = 1 /\ counts[1] = 1
    /\ ret.op = "select_arm"

\* The rounds recorded for arm a with a reward > 0, and with a reward <= 0.
Successes(a) == {t \in RoundsOf(a) : rewards_history[t] > 0}
Failures(a) == {t \in RoundsOf(a) : rewards_history[t] <= 0}

UniformPrior ==
    algo = "ThompsonSampling" /\ ctor.alpha_prior = 1 /\ ctor.beta_prior = 1

C3_Counts ==
    UniformPrior =>
        \A a \in Arms :
            /\ alpha[a] = Cardinality(Successes(a)) + 1
            /\ beta[a] = Cardinality(Failures(a)) + 1
            /\ alpha[a] + beta[a] = counts[a] + 2

C3_Step ==
    (UniformPrior /\ ret'.op = "update" /\ ~ret'.raised) =>
        LET i == ret'.arm IN
        /\ \/ alpha'[i] = alpha[i] + 1 /\ beta'[i] = beta[i]
           \/ alpha'[i] = alpha[i] /\ beta'[i] = beta[i] + 1
        /\ \A o \in Arms \ {i} : alpha'[o] = alpha[o] /\ beta'[o] = beta[o]

\* C3: for a ThompsonSampling policy with prior (1,1), alpha[arm] is 1 plus
\* the number of updates of the arm with reward > 0 and beta[arm] is 1 plus
\* the number with reward <= 0 since the last reset, so alpha[arm] +
\* beta[arm] = counts[arm] + 2; and an update of an arm changes exactly one
\* of that arm's two parameters, by exactly 1.
C3_BetaParameters == [](C3_Counts) /\ [][C3_Step]_vars

C3_Witness ==
    /\ UniformPrior
    /\ ret.op = "update"
    /\ \E a \in Arms : alpha[a] = 3 /\ beta[a] = 2

\* C4: on a UCB policy driven from construction or reset by select_arm
\* calls each followed by update on the arm returned, the first n_arms
\* selections are the arms 0, 1, ..., n_arms-1 in this order, and none of
\* them evaluates the bonus term.
C4_RoundRobinFirst ==
    (algo = "UCB" /\ driven) =>
        /\ \A t \in 1 .. Min(Len(arm_history), n_arms) : arm_history[t] = t - 1
        /\ (ret.op = "select_arm" /\ total_pulls < n_arms) =>
               (~ret.raised /\ ret.arm = total_pulls /\ ret.bonus = <<>>)

C4_Witness ==
    /\ algo = "UCB" /\ driven
    /\ n_arms = 2
    /\ arm_history = <<0, 1>>
    /\ ret.op = "select_arm" /\ ret.bonus # <<>>

\* The arms whose value estimate is the maximum.
Maximizers == {a \in Arms : \A o \in Arms : RatLeq(values[o], values[a])}

\* An exploiting select_arm call that returns arm a.
ExploitReturns(a) == EGSelect /\ ~ret'.explored /\ ret'.arm = a

\* C5: an exploiting EpsilonGreedy.select_arm (every call when epsilon is 0)
\* returns an arm whose value is the maximum, and each arm whose value is
\* the maximum is a possible result; with a single maximizer it is that arm.
C5_ExploitSet ==
    algo = "EpsilonGreedy" =>
        /\ (ret.op = "select_arm" /\ ~ret.explored) => ret.arm \in Maximizers
        /\ (ret.op = "select_arm" /\ epsilon = 0) => ~ret.explored
        /\ (epsilon < 100 /\ exploration_count + exploitation_count < MaxSelects) =>
               \A a \in Arms : (a \in Maximizers) <=> ENABLED ExploitReturns(a)

C5_Witness ==
    /\ algo = "EpsilonGreedy"
    /\ n_arms = 2
    /\ values[0] = RatInt(1) /\ values[1] = RatInt(1)
    /\ ret.op = "select_arm" /\ ~ret.explored /\ ret.arm = 1

\* A calculate_regret call that returned.
RegretReturned == env_ret.op = "calculate_regret" /\ ~env_ret.raised

\* The regret of round i of a history: optimal_ctr - true_ctrs[arm].
RoundRegret(hist, i) == optimal_ctr - true_ctrs[hist[i]]

\* C6: calculate_regret(arm_history) has the length of arm_history, entry t
\* is the sum over the rounds i <= t of optimal_ctr - true_ctrs[arm_history[i]],
\* every entry is >= 0 and the entries never decrease.
C6_RegretIsCumulative ==
    RegretReturned =>
        LET hist == env_ret.arm_history
            res == env_ret.result
        IN  /\ Len(res) = Len(hist)
            /\ \A t \in 1 .. Len(hist) :
                  /\ res[t] = SumTo([i \in 1 .. t |-> RoundRegret(hist, i)], t)
                  /\ res[t] >= 0
                  /\ t > 1 => res[t - 1] <= res[t]

C6_Witness ==
    /\ RegretReturned
    /\ Len(env_ret.result) = 3
    /\ 0 < env_ret.result[1]
    /\ env_ret.result[1] < env_ret.result[2]
    /\ env_ret.result[2] = env_ret.result[3]

ZeroRegret == \A t \in 1 .. Len(env_ret.result) : env_ret.result[t] = 0

\* C7 as claimed: the regret of a non-empty history is zero at every round
\* if and only if every arm of the history is optimal_arm.
C7_ZeroIffOptimalArm ==
    (RegretReturned /\ env_ret.arm_history # <<>>) =>
        (ZeroRegret <=>
            \A t \in 1 .. Len(env_ret.arm_history) :
                env_ret.arm_history[t] = optimal_arm)

\* C7, amended: the regret of a non-empty history is zero at every round if
\* and only if every arm of the history has a true rate equal to
\* optimal_ctr; this is so in particular when every arm is optimal_arm.
C7_ZeroIffOptimalRate ==
    (RegretReturned /\ env_ret.arm_history # <<>>) =>
        /\ ZeroRegret <=>
              \A t \in 1 .. Len(env_ret.arm_history) :
                  true_ctrs[env_ret.arm_history[t]] = optimal_ctr
        /\ (\A t \in 1 .. Len(env_ret.arm_history) :
                env_ret.arm_history[t] = optimal_arm) => ZeroRegret

C7_Witness ==
    /\ RegretReturned
    /\ Len(env_ret.arm_history) = 2
    /\ ZeroRegret
    /\ \E t \in 1 .. 2 : env_ret.arm_history[t] # optimal_arm

\* C8 as claimed: pull_arm, contextual_pull and update raise for every arm
\* outside [0, n_arms), negative ones included: no reward is returned for
\* such an arm and no update is recorded for it.
C8_OutOfRangeRaises ==
    /\ (env_ret.op \in {"pull_arm", "contextual_pull"}
          /\ env_ret.arm \notin 0 .. (n_articles - 1)) => env_ret.raised
    /\ (ret.op = "update" /\ ret.arm \notin Arms) => ret.raised

\* C9: whenever UCB.select_arm evaluates the bonus term, every counts[arm]
\* is >= 1 and total_pulls is >= 1: no logarithm of 0, no division by 0.
C9_BonusOperandsPositive ==
    (algo = "UCB" /\ ret.op = "select_arm" /\ ret.bonus # <<>>) =>
        /\ ~ret.raised
        /\ \A a \in Arms : ret.bonus[a].den >= 1 /\ ret.bonus[a].logArg >= 1

C9_Witness ==
    /\ algo = "UCB"
    /\ ret.op = "select_arm" /\ ret.bonus # <<>>
    /\ n_arms = 1
    /\ ret.bonus[0].logArg = 1

UcbValuesReturned == algo = "UCB" /\ ret.op = "get_ucb_values"

\* C10 as claimed: in every state get_ucb_values returns +infinity for an arm
\* with counts[arm] = 0 and a finite value for an arm with counts[arm] > 0.
C10_InfForUnpulled ==
    UcbValuesReturned =>
        \A a \in Arms :
            /\ counts[a] = 0 => ret.result[a] = PosInf
            /\ counts[a] > 0 => ret.result[a].kind = "num"

\* C10, amended: once a pull has been recorded (total_pulls > 0)
\* get_ucb_values returns +infinity for an arm with counts[arm] = 0 and a
\* finite value for an arm with counts[arm] > 0; before any pull it returns
\* 0 for every arm.
C10_InfForUnpulledAfterFirstPull ==
    UcbValuesReturned =>
        \A a \in Arms :
            IF total_pulls = 0 THEN ret.result[a] = Num(0)
            ELSE /\ counts[a] = 0 => ret.result[a] = PosInf
                 /\ counts[a] > 0 => ret.result[a].kind = "num"

C10_Witness ==
    /\ UcbValuesReturned
    /\ n_arms = 2
    /\ counts[0] = 0 /\ counts[1] = 2
    /\ ret.result[0] = PosInf /\ ret.result[1].kind = "num"

\* The policy the policy variables hold is in its reset state.
ResetState ==
    /\ total_pulls = 0
    /\ \A a \in Arms : counts[a] = 0
    /\ \A a \in DOMAIN values : values[a] = RatInt(0)
    /\ rewards_history = <<>>
    /\ arm_history = <<>>

\* The first selection of a trial of compare_algorithms is about to be made.
FirstSelectionOfTrial == cmp.pc = "run" /\ sim.pc = "select" /\ sim.t = 0

\* compare_algorithms has returned.
CompareReturned == cmp.pc = "done"

\* C11: in compare_algorithms the first selection of every trial, of every
\* policy of the mapping, finds the policy in its reset state (total_pulls 0,
\* all counts and values 0, empty histories), and when compare_algorithms
\* returns, total_pulls of each policy equals n_rounds.
C11_ResetBeforeEachTrial ==
    /\ FirstSelectionOfTrial => ResetState
    /\ CompareReturned =>
           \A k \in 1 .. Len(cmp.finished) :
               cmp.finished[k].total_pulls = cmp.n_rounds

\* The sum of the sums of the reward sequences of a sequence of trials.
RECURSIVE SumOfSums(_)
SumOfSums(trials) ==
    IF trials = <<>> THEN 0 ELSE Sum(Head(trials)) + SumOfSums(Tail(trials))

\* The policies of the mapping are all non-contextual.
NonContextualMapping ==
    \A k \in 1 .. Len(cmp.finished) : cmp.finished[k].algo # "ContextualBandit"

\* C12: for n_rounds >= 1 and n_simulations >= 1, compare_algorithms returns
\* one row per non-contextual policy of the mapping, in the mapping's order;
\* in each row 'Avg Total Reward' is the mean over the trials of the sum of
\* the trial's rewards, and 'Avg CTR' is 'Avg Total Reward' / n_rounds.
C12_OneRowPerPolicy ==
    (CompareReturned /\ cmp.n_rounds >= 1 /\ cmp.n_simulations >= 1
        /\ NonContextualMapping) =>
        /\ Len(cmp.results) = Len(cmp.finished)
        /\ \A k \in 1 .. Len(cmp.results) :
             LET row == cmp.results[k] IN
             /\ row.Algorithm = Names[k]
             /\ Len(cmp.trials[k]) = cmp.n_simulations
             /\ row.AvgTotalReward.d # 0
             /\ row.AvgTotalReward.n * cmp.n_simulations
                    = SumOfSums(cmp.trials[k]) * row.AvgTotalReward.d
             /\ row.AvgCTR.d # 0
             /\ row.AvgCTR.n * row.AvgTotalReward.d * cmp.n_rounds
                    = row.AvgTotalReward.n * row.AvgCTR.d

\* A comparison of two policies over one trial of two rounds has returned,
\* with a click in one round of the second policy.
C12_Witness ==
    /\ CompareReturned
    /\ Len(cmp.results) = 2
    /\ cmp.n_rounds = 2 /\ cmp.n_simulations = 1
    /\ cmp.results[2].AvgTotalReward = RatInt(1)
    /\ cmp.results[2].AvgCTR = Rat(1, 2)

\* run_simulation has returned its results.
SimReturned == sim.pc = "done"

\* C13: run_simulation called with n_rounds >= 1 returns 'rewards', 'arms',
\* 'regret' and 'ctr_evolution' of length n_rounds each, and every entry of
\* 'arms' is an index in [0, n_arms).
C13_FourSequences ==
    (SimReturned /\ sim.n_rounds >= 1) =>
        /\ Len(sim.rewards) = sim.n_rounds
        /\ Len(sim.arms) = sim.n_rounds
        /\ Len(sim.regret) = sim.n_rounds
        /\ Len(sim.ctr_evolution) = sim.n_rounds
        /\ \A t \in 1 .. Len(sim.arms) : sim.arms[t] \in 0 .. (n_arms - 1)

\* A run of two rounds that chose both arms has returned.
C13_Witness ==
    /\ SimReturned
    /\ sim.n_rounds = 2
    /\ n_arms = 2
    /\ sim.arms = <<1, 0>>
    /\ Len(sim.regret) = 2

\* run_simulation is running or has returned: its frame holds its results.
SimActive == sim.pc \in {"user", "select", "pull", "update", "regret", "done", "raised"}

\* C14: ctr_evolution[t] of run_simulation is the sum of the rewards of the
\* rounds 0 .. t of this run divided by t + 1, whatever rewards the policy
\* had received before the run.
C14_RunningCtr ==
    SimActive =>
        /\ Len(sim.ctr_evolution) = Len(sim.rewards)
        /\ \A t \in 1 .. Len(sim.ctr_evolution) :
             LET ctr == sim.ctr_evolution[t] IN
             /\ ctr.d # 0
             /\ ctr.n * t = Sum(SubSeq(sim.rewards, 1, t)) * ctr.d

\* A run of two rounds with one click has returned, on a policy that had
\* received a reward of 1 before the run.
C14_Witness ==
    /\ SimReturned
    /\ sim.n_rounds = 2
    /\ sim.rewards = <<0, 1>>
    /\ sim.ctr_evolution = <<RatInt(0), Rat(1, 2)>>
    /\ total_reward = 2

\* C15: ContextualBandit.select_arm(context, use_ucb) returns an arm in
\* [0, n_arms) and does not raise, for use_ucb true and false, also when the
\* matrix A of some arm is singular; for such an arm theta is zero.
C15_SingularNeverRaises ==
    (algo = "ContextualBandit" /\ ret.op = "select_arm") =>
        /\ ~ret.raised
        /\ ret.arm \in Arms
        /\ \A a \in Arms : Singular(A[a]) => theta[a] = RatZeroVec(n_features)

\* C16: ThompsonSampling.get_confidence_intervals(confidence) raises, and
\* returns no interval, for every confidence outside the open interval
\* (0, 1), in every state of the policy.
C16_ConfidenceRejected ==
    (ret.op = "get_confidence_intervals"
        /\ (ret.confidence <= 0 \/ ret.confidence >= 100)) => ret.raised

\* The frame of a run_simulation call made by the caller of the model (not by
\* compare_algorithms).
TopLevelRun == SimActive /\ sim.caller = "top"

\* compare_algorithms has been called.
CompareCalled == cmp.pc # "none"

\* C17: run_simulation with n_rounds <= 0, and compare_algorithms with
\* n_rounds <= 0 or n_simulations <= 0, raise at the call: the call is in
\* its raised state (it neither runs on nor returns), and no select_arm,
\* update or reset has been performed on the policy.
C17_NonPositiveRejected ==
    /\ (TopLevelRun /\ sim.n_rounds <= 0) =>
           sim.pc = "raised" /\ ret.op \notin {"select_arm", "update", "reset"}
    /\ (CompareCalled /\ (cmp.n_rounds <= 0 \/ cmp.n_simulations <= 0)) =>
           cmp.pc = "raised" /\ ret.op \notin {"select_arm", "update", "reset"}

\* The setter calls that have returned.
SetEpsilonReturned == ret.op = "set_epsilon"
SetCReturned == ret.op = "set_c"

\* epsilon and c after a setter: min(1, max(0, v)) in percent, max(0.1, v)
\* in tenths; no setter raises.
C18_Clamped ==
    /\ SetEpsilonReturned =>
           /\ ~ret.raised
           /\ epsilon = (IF ret.value < 0 THEN 0
                         ELSE IF ret.value > 100 THEN 100 ELSE ret.value)
    /\ SetCReturned =>
           /\ ~ret.raised
           /\ c = (IF ret.value < 1 THEN 1 ELSE ret.value)

\* A step that is a setter call leaves counts, values, total_pulls,
\* total_reward and the histories as they were.
C18_Frame ==
    (ret' # ret /\ ret'.op \in {"set_epsilon", "set_c"}) => UNCHANGED base

\* C18: set_epsilon(v) leaves epsilon == min(1, max(0, v)) and set_c(v)
\* leaves c == max(0.1, v) for every v, below, inside and above the range;
\* neither raises, and both leave counts, values, total_pulls and the
\* histories unchanged.
C18_SettersClamp == [](C18_Clamped) /\ [][C18_Frame]_vars

\* set_epsilon(1.5) has clamped epsilon to 1 on a policy that holds rewards.
C18_Witness ==
    /\ SetEpsilonReturned
    /\ ret.value = 150
    /\ epsilon = 100
    /\ total_pulls = 2
    /\ ctor.epsilon = 0

\* The ground truth of the environment: the articles, true_ctrs, optimal_arm
\* and optimal_ctr (and n_articles).
GroundTruth == <<n_articles, articles, true_ctrs, optimal_arm, optimal_ctr>>

\* C19: no step of run_simulation or compare_algorithms, and so none of the
\* pull_arm, contextual_pull, generate_user and calculate_regret calls they
\* make, changes true_ctrs, optimal_arm, optimal_ctr or the articles.
C19_GroundTruthFixed == [][GroundTruth' = GroundTruth]_vars

\* A run with user contexts has drawn rewards with contextual_pull for two
\* generated users and computed the regret.
C19_Witness ==
    /\ SimReturned
    /\ sim.use_context
    /\ Len(sim.rewards) = 2
    /\ env_ret.op = "calculate_regret"
    /\ true_ctrs = [i \in 0 .. (n_articles - 1) |-> articles[i].true_ctr]

\* The round (from 1) of the first reward of 1 since the reset, 0 if none.
FirstClick ==
    IF \E t \in 1 .. Len(rewards_history) : rewards_history[t] = 1
    THEN CHOOSE t \in 1 .. Len(rewards_history) :
             /\ rewards_history[t] = 1
             /\ \A o \in 1 .. (t - 1) : rewards_history[o] = 0
    ELSE 0

\* An EpsilonGreedy policy with epsilon 0 in a run from the reset state:
\* since the reset, select_arm and update alternate and every update is made
\* on the arm the select_arm before it returned.
GreedyRun == algo = "EpsilonGreedy" /\ epsilon = 0 /\ driven

\* A select_arm call that returns arm a.
SelectReturns(a) == EGSelect /\ ret'.arm = a

\* C20: in a run of EpsilonGreedy with epsilon 0 from the reset state, while
\* no reward of 1 has been received all values are 0 and every arm is a
\* possible selection; once an arm has received the first reward of 1, every
\* selection of the later rounds is that arm.
C20_GreedyLocksOn ==
    GreedyRun =>
        IF FirstClick = 0
        THEN /\ \A a \in Arms : values[a] = RatInt(0)
             /\ exploration_count + exploitation_count < MaxSelects =>
                    \A a \in Arms : ENABLED SelectReturns(a)
        ELSE LET first == arm_history[FirstClick] IN
             /\ \A t \in (FirstClick + 1) .. Len(arm_history) : arm_history[t] = first
             /\ (ret.op = "select_arm") => ret.arm = first
             /\ \A a \in Arms \ {first} : RatLess(values[a], values[first])
             /\ exploration_count + exploitation_count < MaxSelects =>
                    \A a \in Arms : (a = first) <=> ENABLED SelectReturns(a)

\* Arm 1 received a 1 and then a 0, and is selected again.
C20_Witness ==
    /\ GreedyRun
    /\ n_arms = 2
    /\ rewards_history = <<1, 0>>
    /\ arm_history = <<1, 1>>
    /\ values[1] = Rat(1, 2)
    /\ ret.op = "select_arm" /\ ret.arm = 1

\* A NewsEnvironment has been constructed.
EnvConstructed == n_articles > 0

\* C21: in every constructed NewsEnvironment each true_ctr lies in
\* [0.05, 0.30] (500 .. 3000 ten-thousandths), the rates do not increase
\* with the arm id, optimal_arm is index 0, the first index of the maximal
\* rate, and optimal_ctr == true_ctrs[optimal_arm].
C21_EnvironmentShape ==
    EnvConstructed =>
        /\ \A i \in 0 .. (n_articles - 1) :
             /\ 500 <= true_ctrs[i] /\ true_ctrs[i] <= 3000
             /\ articles[i].true_ctr = true_ctrs[i]
             /\ articles[i].id = i
        /\ \A i \in 0 .. (n_articles - 2) : true_ctrs[i] >= true_ctrs[i + 1]
        /\ optimal_arm = 0
        /\ \A i \in 0 .. (n_articles - 1) : true_ctrs[i] <= true_ctrs[optimal_arm]
        /\ optimal_ctr = true_ctrs[optimal_arm]

\* An environment of two articles with the extreme rates, after calls on it.
C21_Witness ==
    /\ n_articles = 2
    /\ true_ctrs[0] = 3000 /\ true_ctrs[1] = 500
    /\ optimal_ctr = 3000
    /\ env_ret.op = "pull_arm"

\* The arrays and lists of a policy that get_metrics and get_distributions
\* return.
HandedOut == <<counts, values, rewards_history, arm_history, alpha, beta>>

\* The fields of a policy.
PolicyFields == <<algo, n_arms, base, egState, c, tsState, ctxState>>

\* C22: a get_metrics or get_distributions call changes no field of the
\* policy, and a write of the caller into any array or list such a call
\* returned leaves counts, values, rewards_history, arm_history, alpha and
\* beta of the policy unchanged.
C22_CopiesOnly ==
    [][/\ (ret' # ret /\ ret'.op \in {"get_metrics", "get_distributions"}) =>
              UNCHANGED PolicyFields
       /\ (ret' # ret /\ ret'.op = "mutate_returned") => UNCHANGED HandedOut]_vars

\* The caller has written into the counts array get_metrics returned, on a
\* policy that holds two rewards; the policy's counts are as before.
C22_Witness ==
    /\ ret.op = "mutate_returned"
    /\ ret.key = "counts"
    /\ ret.value[0] = 7
    /\ total_pulls = 2
    /\ counts[0] = 2

\* The reward of the current round of run_simulation has been drawn and the
\* update of the round is due.
RewardDrawn == sim.pc = "update"

\* The select_arm call of the current round was handed the user's context.
ContextPassed == ret.op = "select_arm" /\ "context" \in DOMAIN ret

\* C23: in every round of run_simulation the reward is drawn with
\* contextual_pull exactly when the user's context was passed to select_arm
\* in that round, and with pull_arm exactly when select_arm was called
\* without context.
C23_RewardPathMatchesSelection ==
    RewardDrawn =>
        /\ env_ret.op \in {"pull_arm", "contextual_pull"}
        /\ (env_ret.op = "contextual_pull") <=> ContextPassed
        /\ (env_ret.op = "pull_arm") <=> ~ContextPassed

\* The sum of x[t][r] * x[t][k] over the updates t of arm i among the first n
\* updates of the history, x[t] being the context of update t.
OuterSumTo(n, i, x, r, k) ==
    LET S[t \in 0 .. n] ==
            IF t = 0 THEN 0
            ELSE S[t - 1] + (IF arm_history[t] = i THEN x[t][r] * x[t][k] ELSE 0)
    IN  S[n]

\* The sum of reward * x[t][r] over the updates t of arm i.
ResponseSumTo(n, i, x, r) ==
    LET S[t \in 0 .. n] ==
            IF t = 0 THEN 0
            ELSE S[t - 1] + (IF arm_history[t] = i THEN rewards_history[t] * x[t][r] ELSE 0)
    IN  S[n]

\* A and b are the sums over the updates since construction or the last
\* reset, x[t] being the context of update t.
SumsOver(x) ==
    \A i \in Arms :
        /\ \A r, k \in 1 .. n_features :
             A[i][r][k] = (IF r = k THEN ctx_alpha ELSE 0)
                            + OuterSumTo(total_pulls, i, x, r, k)
        /\ \A r \in 1 .. n_features :
             b[i][r] = ResponseSumTo(total_pulls, i, x, r)

\* The contexts of the updates since construction or the last reset exist,
\* the last of them being the context of the last update call.
ContextHistoryExists ==
    \E x \in [1 .. total_pulls -> Contexts] :
        /\ (total_pulls > 0 /\ ret.op = "update") => x[total_pulls] = ret.context
        /\ SumsOver(x)

\* A step is a recorded update of a ContextualBandit.
CtxUpdated ==
    /\ algo = "ContextualBandit"
    /\ total_pulls' = total_pulls + 1
    /\ ret'.op = "update"

\* The update adds the outer product and the response of its context to its
\* arm and leaves the other arms alone.
OneArmUpdated ==
    LET i == ret'.arm
        x == ret'.context
    IN  /\ \A r, k \in 1 .. n_features : A'[i][r][k] = A[i][r][k] + x[r] * x[k]
        /\ \A r \in 1 .. n_features : b'[i][r] = b[i][r] + ret'.reward * x[r]
        /\ counts'[i] = counts[i] + 1
        /\ \A j \in Arms \ {i} :
             A'[j] = A[j] /\ b'[j] = b[j] /\ counts'[j] = counts[j]

\* C24: for a ContextualBandit, after any updates since construction or the
\* last reset, A[arm] is alpha * I plus the sum of the outer products
\* context * context^T over the updates of that arm and b[arm] the sum of
\* reward * context over them; an update of one arm leaves A, b and counts
\* of every other arm unchanged.
C24_DesignMatrixIsSum ==
    /\ [](algo = "ContextualBandit" => ContextHistoryExists)
    /\ [][CtxUpdated => OneArmUpdated]_vars

\* Two arms with two features and alpha = 1: arm 1 has been updated twice
\* with reward 1, with the unit vector and with the all-ones vector, and arm 0
\* never.
C24_Witness ==
    /\ algo = "ContextualBandit"
    /\ n_arms = 2 /\ n_features = 2 /\ ctx_alpha = 1
    /\ ret.op = "update"
    /\ arm_history = <<1, 1>>
    /\ A[1] = <<<<3, 1>>, <<1, 2>>>>
    /\ b[1] = <<2, 1>>
    /\ A[0] = <<<<1, 0>>, <<0, 1>>>>
    /\ b[0] = <<0, 0>>

\* The bookkeeping every constructor sets up.
FreshBookkeeping ==
    /\ counts = Zeros(n_arms)
    /\ total_pulls = 0
    /\ total_reward = 0
    /\ rewards_history = <<>>
    /\ arm_history = <<>>

\* The policy is in the state its constructor leaves, for the constructor
\* arguments it was built with.
AsConstructed ==
    /\ FreshBookkeeping
    /\ algo # "ContextualBandit" => values = RatZeros(n_arms)
    /\ algo = "EpsilonGreedy" =>
         /\ epsilon = ctor.epsilon
         /\ exploration_count = 0
         /\ exploitation_count = 0
    /\ algo = "UCB" => c = ctor.c
    /\ algo = "ThompsonSampling" =>
         /\ alpha = Filled(n_arms, ctor.alpha_prior)
         /\ beta = Filled(n_arms, ctor.beta_prior)
    /\ algo = "ContextualBandit" =>
         /\ n_features = ctor.n_features
         /\ ctx_alpha = ctor.alpha
         /\ A = [a \in Arms |-> Identity(n_features, ctx_alpha)]
         /\ b = [a \in Arms |-> ZeroVec(n_features)]
         /\ theta = [a \in Arms |-> RatZeroVec(n_features)]

\* C25: for every policy class, reset() after any select_arm and update
\* calls leaves the policy equal in every field to a policy freshly
\* constructed with the same constructor arguments.
C25_ResetEqualsFresh == ret.op = "reset" => AsConstructed

\* The last call was a ContextualBandit.select_arm.
CtxSelected == algo = "ContextualBandit" /\ ret.op = "select_arm"

\* The arm returned has the maximal score for the call's context, and every
\* arm before it a smaller one.
LowestMaximizer ==
    LET scores == [a \in Arms |-> Score(a, ret.context)] IN
    /\ \A a \in Arms : ~FLess(scores[ret.arm], scores[a])
    /\ \A a \in 0 .. (ret.arm - 1) : FLess(scores[a], scores[ret.arm])

\* C26: ContextualBandit.select_arm returns the lowest index among the arms
\* whose scores tie for the maximum, so a freshly constructed or reset
\* ContextualBandit returns arm 0 for every context, and goes on returning
\* arm 0 until an update is recorded.
C26_FreshSelectsArmZero ==
    CtxSelected =>
        /\ ~ret.raised => LowestMaximizer
        /\ total_pulls = 0 => (~ret.raised /\ ret.arm = 0)

\* run_simulation is in a round, between rounds or has returned.
InRun == sim.pc \in {"user", "select", "pull", "update", "regret", "done"}

\* The policy has recorded the updates of this run and no others: the run
\* began on a freshly reset policy.
OnFreshPolicy == total_pulls = Len(sim.arms)

\* The reward of the round is about to be drawn: the last policy call is the
\* select_arm that returned the round's arm.
SelectedBeforePull ==
    sim.pc = "pull" => (ret.op = "select_arm" /\ ~ret.raised /\ ret.arm = sim.arm)

\* The update of the round is due: the reward was drawn for the selected
\* arm, after the select_arm and with no policy call in between.
PulledBeforeUpdate ==
    sim.pc = "update" =>
        /\ ret.op = "select_arm" /\ ret.arm = sim.arm
        /\ env_ret.op \in {"pull_arm", "contextual_pull"}
        /\ env_ret.arm = sim.arm
        /\ env_ret.reward = sim.reward

\* After t rounds the results hold t entries and the last policy call is the
\* update with the arm and the reward of round t.
UpdatedAfterRound ==
    (sim.pc \in {"user", "select", "regret", "done"} /\ sim.t > 0) =>
        /\ Len(sim.arms) = sim.t /\ Len(sim.rewards) = sim.t
        /\ ret.op = "update" /\ ~ret.raised
        /\ ret.arm = sim.arms[sim.t]
        /\ ret.reward = sim.rewards[sim.t]

\* C27: every round of run_simulation makes one select_arm, then one reward
\* draw for the selected arm, then one update with that arm and reward; so on
\* a freshly reset policy arm_history and rewards_history equal the results'
\* 'arms' and 'rewards' after every round, and when the run returns
\* total_pulls == n_rounds and total_reward == sum(results['rewards']).
C27_OneSelectPullUpdatePerRound ==
    /\ SelectedBeforePull
    /\ PulledBeforeUpdate
    /\ UpdatedAfterRound
    /\ (InRun /\ OnFreshPolicy) =>
           /\ arm_history = sim.arms
           /\ rewards_history = sim.rewards
    /\ (SimReturned /\ OnFreshPolicy) =>
           /\ total_pulls = sim.n_rounds
           /\ total_reward = Sum(sim.rewards)

=============================================================================
